---- MODULE Spec2Model ----
(***************************************************************************)
(* Vinted market-intelligence pipeline: the snapshot reconciliation of     *)
(* process_data.py (scrape file -> listings table + price/sold event logs) *)
(* and the KPI functions of calculate_kpis.py.                             *)
(*                                                                         *)
(* A DataFrame is a sequence of rows (records).  Timestamps are integers   *)
(* in hours.  The clock is the local wall clock datetime.now() reads; it    *)
(* never goes backwards in the model, and nothing forces it forward        *)
(* between two steps: two runs can read the same second (a quick re-run),  *)
(* which is when two readings are equal in the model.                      *)
(* A missing timestamp (NaT) is the empty tuple, a present one is the      *)
(* 1-tuple <<t>>.  Columns that the pipeline only copies (title, url,      *)
(* seller, size, currency, brand ...) are left out of the pipeline rows.   *)
(***************************************************************************)
EXTENDS Integers, Sequences, FiniteSets, TLC

VARIABLES
    now,        \* the wall clock, datetime.now(), in hours
    scrape,     \* the newest data/scrapes/vinted_scrape_*.csv: [exists, rows],
                \* and whether a run has read it (processed)
    listings,   \* data/processed/listings.parquet (<<>>: no file or no rows)
    priceLog,   \* data/processed/price_events.parquet (<<>>: no file)
    soldLog,    \* data/processed/sold_events.parquet (<<>>: no file)
    runs,       \* number of process_pipeline calls so far
    published,  \* the published_at the marketplace API reports for each item
    rerun,      \* a reconciliation applied twice to one (previous, current) pair
    kpi,        \* a KPI query: its input tables, its filter and its result
    save,       \* a process_pipeline call inside save_processed_data: the next
                \* write, the three outputs to write, the files as the call found them
    norm,       \* raw brand, category, title and condition of one scraped record,
                \* and the normalisers' outputs on them and on their own outputs
    pipe,       \* run_pipeline.main: the stage it is at, the stages it started
                \* and what run_command returned for each
    pager       \* the page loop of one combo of the enhanced scraper: its
                \* position, page_num, attempt, items and the requests it made

vars == <<now, scrape, listings, priceLog, soldLog, runs, published, rerun, kpi, save, norm, pipe, pager>>

----------------------------------------------------------------------------
(* Bounds of the model *)

Items == {1, 2}          \* item ids the marketplace can show
Prices == {10, 20}       \* prices an item can be listed at
MaxRuns == 3             \* process_pipeline calls explored
MaxTicks == 2            \* clock advances explored
TickHours == 24          \* one clock advance, in hours
PastHours == 24          \* an API published_at this long before the first clock reading
FutureHours == 48        \* an API published_at this long after the first clock reading

----------------------------------------------------------------------------
(* Timestamps and small helpers *)

NaT == <<>>
Ts(t) == <<t>>
notna(x) == x # NaT
Val(x) == x[1]

Range(s) == {s[i] : i \in 1..Len(s)}

RECURSIVE SortedSeq(_)
SortedSeq(S) ==
    IF S = {} THEN <<>>
    ELSE LET m == CHOOSE x \in S : \A y \in S : x <= y
         IN  <<m>> \o SortedSeq(S \ {m})

RECURSIVE Concat(_)
Concat(ss) == IF Len(ss) = 0 THEN <<>> ELSE Head(ss) \o Concat(Tail(ss))

ItemIds(df) == {df[i].item_id : i \in 1..Len(df)}

isin(df, ids) == SelectSeq(df, LAMBDA r : r.item_id \in ids)

----------------------------------------------------------------------------
(* process_data.py: the reconciliation functions *)

\* a new row given a status of its own instead of 'active'
process_new_scrape_status_new(current_df, ts) ==
    [i \in 1..Len(current_df) |->
        LET r == current_df[i] IN
        [item_id       |-> r.item_id,
         price         |-> r.price,
         status        |-> IF "status" \in DOMAIN r THEN r.status ELSE "new",
         first_seen_at |-> Ts(ts),
         last_seen_at  |-> Ts(ts),
         published_at  |-> r.published_at]]

\* process_new_scrape: stamp every row of the scrape with the run's timestamp.
process_new_scrape(current_df, ts) ==
    [i \in 1..Len(current_df) |->
        LET r == current_df[i] IN
        [item_id       |-> r.item_id,
         price         |-> r.price,
         status        |-> IF "status" \in DOMAIN r THEN r.status ELSE "active",
         first_seen_at |-> Ts(ts),
         last_seen_at  |-> Ts(ts),
         published_at  |-> r.published_at]]

\* current_df.merge(previous_df[[...]], on='item_id', how='inner'): one row per
\* (current row, previous row) pair with the same item_id, in current order.
merge(current_df, previous_df) ==
    Concat([i \in 1..Len(current_df) |->
        LET c == current_df[i]
            m == SelectSeq(previous_df, LAMBDA p : p.item_id = c.item_id)
        IN  [j \in 1..Len(m) |-> [cur |-> c, prev |-> m[j]]]])

price_event(m, t) ==
    [event_id   |-> <<"PE", m.cur.item_id, t>>,
     item_id    |-> m.cur.item_id,
     old_price  |-> m.prev.price,
     new_price  |-> m.cur.price,
     changed_at |-> Ts(t)]

\* the price comparison left out: an event for every item of both tables
detect_price_changes_unfiltered(current_df, previous_df, t) ==
    IF Len(previous_df) = 0 THEN <<>>
    ELSE LET merged == merge(current_df, previous_df)
         IN  [i \in 1..Len(merged) |-> price_event(merged[i], t)]

detect_price_changes(current_df, previous_df, t) ==
    IF Len(previous_df) = 0 THEN <<>>
    ELSE LET merged == merge(current_df, previous_df)
             price_changed == SelectSeq(merged, LAMBDA m : m.cur.price # m.prev.price)
         IN  [i \in 1..Len(price_changed) |-> price_event(price_changed[i], t)]

\* timedelta thresholds of the confidence step function, in hours
HighConfidenceHours == 48
MediumConfidenceHours == 24

\* the thresholds compared with > instead of >=
sold_confidence_strict(time_diff) ==
    IF time_diff > HighConfidenceHours THEN 10
    ELSE IF time_diff > MediumConfidenceHours THEN 5
    ELSE 0

\* sold_confidence in tenths: 10 is 1.0, 5 is 0.5, 0 is 0.0
sold_confidence(time_diff) ==
    IF time_diff >= HighConfidenceHours THEN 10
    ELSE IF time_diff >= MediumConfidenceHours THEN 5
    ELSE 0

\* the date days_to_sell is counted from
listing_date(item) ==
    IF notna(item.published_at) THEN item.published_at ELSE item.first_seen_at

\* days_to_sell is kept in hours: the code's value is this number / 24
days_to_sell(current_time, item) == current_time - Val(listing_date(item))

sold_event(item, current_time) ==
    [event_id        |-> <<"SE", item.item_id, current_time>>,
     item_id         |-> item.item_id,
     last_price      |-> item.price,
     sold_at         |-> Ts(current_time),
     published_at    |-> listing_date(item),
     first_seen_at   |-> item.first_seen_at,
     days_to_sell    |-> days_to_sell(current_time, item),
     sold_confidence |-> sold_confidence(current_time - Val(item.last_seen_at))]

\* hours_threshold is accepted and never read by the body.
detect_sold_items(current_df, previous_df, hours_threshold, current_time) ==
    IF Len(previous_df) = 0 THEN <<>>
    ELSE LET missing_ids == ItemIds(previous_df) \ ItemIds(current_df)
             order == SortedSeq(missing_ids)
         IN  [i \in 1..Len(order) |->
                sold_event(Head(isin(previous_df, {order[i]})), current_time)]

\* a slip in the status literal written for a disappeared item
mark_sold_capitalised(r, t) == [r EXCEPT !.status = "Sold", !.last_seen_at = Ts(t)]

\* sold_items['status'] = 'sold'; sold_items['last_seen_at'] = datetime.now()
mark_sold(r, t) == [r EXCEPT !.status = "sold", !.last_seen_at = Ts(t)]

\* existing rows keep the stamp of the current run as their first_seen_at
update_listings_database_restamped(current_df, previous_df, t) ==
    IF Len(previous_df) = 0 THEN current_df
    ELSE LET current_ids == ItemIds(current_df)
             previous_ids == ItemIds(previous_df)
             new_items == isin(current_df, current_ids \ previous_ids)
             existing_ids == current_ids \cap previous_ids
             merged == merge(isin(current_df, existing_ids),
                             isin(previous_df, existing_ids))
             existing_current ==
                [i \in 1..Len(merged) |->
                    [merged[i].cur EXCEPT
                        !.published_at = merged[i].prev.published_at]]
             prev_sold == isin(previous_df, previous_ids \ current_ids)
             sold_items == [i \in 1..Len(prev_sold) |-> mark_sold(prev_sold[i], t)]
         IN  existing_current \o new_items \o sold_items

\* existing rows take last_seen_at, not first_seen_at, from the previous table
update_listings_database_last_seen_kept(current_df, previous_df, t) ==
    IF Len(previous_df) = 0 THEN current_df
    ELSE LET current_ids == ItemIds(current_df)
             previous_ids == ItemIds(previous_df)
             new_items == isin(current_df, current_ids \ previous_ids)
             existing_ids == current_ids \cap previous_ids
             merged == merge(isin(current_df, existing_ids),
                             isin(previous_df, existing_ids))
             existing_current ==
                [i \in 1..Len(merged) |->
                    [merged[i].cur EXCEPT
                        !.last_seen_at = merged[i].prev.last_seen_at,
                        !.published_at = merged[i].prev.published_at]]
             prev_sold == isin(previous_df, previous_ids \ current_ids)
             sold_items == [i \in 1..Len(prev_sold) |-> mark_sold(prev_sold[i], t)]
         IN  existing_current \o new_items \o sold_items

\* the disappeared rows left out of the concat
update_listings_database_without_sold(current_df, previous_df, t) ==
    IF Len(previous_df) = 0 THEN current_df
    ELSE LET current_ids == ItemIds(current_df)
             previous_ids == ItemIds(previous_df)
             new_items == isin(current_df, current_ids \ previous_ids)
             existing_ids == current_ids \cap previous_ids
             merged == merge(isin(current_df, existing_ids),
                             isin(previous_df, existing_ids))
             existing_current ==
                [i \in 1..Len(merged) |->
                    [merged[i].cur EXCEPT
                        !.first_seen_at = merged[i].prev.first_seen_at,
                        !.published_at = merged[i].prev.published_at]]
         IN  existing_current \o new_items

update_listings_database(current_df, previous_df, t) ==
    IF Len(previous_df) = 0 THEN current_df
    ELSE LET current_ids == ItemIds(current_df)
             previous_ids == ItemIds(previous_df)
             new_items == isin(current_df, current_ids \ previous_ids)
             existing_ids == current_ids \cap previous_ids
             merged == merge(isin(current_df, existing_ids),
                             isin(previous_df, existing_ids))
             existing_current ==
                [i \in 1..Len(merged) |->
                    [merged[i].cur EXCEPT
                        !.first_seen_at = merged[i].prev.first_seen_at,
                        !.published_at = merged[i].prev.published_at]]
             prev_sold == isin(previous_df, previous_ids \ current_ids)
             sold_items == [i \in 1..Len(prev_sold) |-> mark_sold(prev_sold[i], t)]
         IN  existing_current \o new_items \o sold_items

\* a missing item_id or price (no scrape row of the model carries one)
NaN == -1

\* listings_df.dropna(subset=['item_id', 'price'])
dropna(listings_df) ==
    SelectSeq(listings_df, LAMBDA r : r.item_id # NaN /\ r.price # NaN)

\* the batch written over the file, the read of the existing events left out
append_events_overwrite(log, batch) == IF Len(batch) = 0 THEN log ELSE batch

\* the append of save_processed_data: an empty batch leaves the file alone,
\* otherwise the file becomes concat([existing, batch])
append_events(log, batch) == IF Len(batch) = 0 THEN log ELSE log \o batch

----------------------------------------------------------------------------
(* The scraper's output and the pipeline run *)

\* published_at values the marketplace API can hand the scraper: none, a time
\* before the first run, a time ahead of the first run's clock.  The pipeline
\* keeps the first published_at it stored for an item (update_listings_database
\* copies it from the previous table), so one value per item is all it ever reads.
PublishedValues == {NaT, Ts(0 - PastHours), Ts(FutureHours)}

\* scrape files are already de-duplicated by item_id and never empty
Snapshots ==
    {df \in UNION {[1..n -> [item_id : Items, price : Prices,
                             published_at : PublishedValues]] : n \in 1..Cardinality(Items)} :
        /\ \A i \in 1..Len(df) - 1 : df[i].item_id < df[i + 1].item_id
        /\ \A i \in 1..Len(df) : df[i].published_at = published[df[i].item_id]}

hours_threshold_arg == 48

RerunIdle ==
    [phase |-> "idle", previous_df |-> <<>>, current_df |-> <<>>,
     out1 |-> <<>>, files1 |-> <<>>, out2 |-> <<>>]
KpiIdle ==
    [phase |-> "idle", listings_df |-> <<>>, sold_events_df |-> <<>>,
     brand |-> {}, category |-> {}, kpis |-> <<>>]

SaveIdle == [pc |-> "idle", out |-> <<>>, before |-> <<>>]
NormIdle == [phase |-> "idle", raw |-> <<>>, once |-> <<>>, twice |-> <<>>]
PipeIdle == [stage |-> "idle", started |-> <<>>, results |-> <<>>]
PagerIdle ==
    [pc |-> "idle", page_num |-> 0, attempt |-> 0, items |-> "empty",
     fetched |-> <<>>, stop_seen |-> FALSE, late |-> 0]

load_previous_listings == listings

\* steps 4-6 of process_pipeline: the three outputs of one reconciliation
reconcile(current_df, previous_df, t) ==
    [price_events_df |-> detect_price_changes(current_df, previous_df, t),
     sold_events_df  |-> detect_sold_items(current_df, previous_df, hours_threshold_arg, t),
     updated_listings_df |-> update_listings_database(current_df, previous_df, t)]

\* the three files as save_processed_data leaves them
saved(out) ==
    [listings |-> dropna(out.updated_listings_df),
     priceLog |-> append_events(priceLog, out.price_events_df),
     soldLog  |-> append_events(soldLog, out.sold_events_df)]

\* save_processed_data: rewrite the listings file, append to the two event files
save_processed_data(out) ==
    /\ listings' = saved(out).listings
    /\ priceLog' = saved(out).priceLog
    /\ soldLog' = saved(out).soldLog

Init ==
    /\ now = 0
    /\ rerun = RerunIdle
    /\ kpi = KpiIdle
    /\ save = SaveIdle
    /\ norm = NormIdle
    /\ pipe = PipeIdle
    /\ pager = PagerIdle
    /\ scrape = [exists |-> FALSE, rows |-> <<>>, processed |-> FALSE]
    /\ listings = <<>>
    /\ priceLog = <<>>
    /\ soldLog = <<>>
    /\ runs = 0
    /\ published \in [Items -> PublishedValues]

Tick ==
    /\ now < MaxTicks * TickHours
    /\ now' = now + TickHours
    /\ UNCHANGED <<scrape, listings, priceLog, soldLog, runs, published, rerun, kpi, save, norm, pipe, pager>>

\* scrape_vinted: a new, newest scrape file.  Only the newest file is ever read,
\* so a file that a newer one replaces before any run has read it is not explored.
ScrapeVinted ==
    /\ runs < MaxRuns
    /\ scrape.exists => scrape.processed
    /\ \E df \in Snapshots :
          scrape' = [exists |-> TRUE, rows |-> df, processed |-> FALSE]
    /\ UNCHANGED <<now, listings, priceLog, soldLog, runs, published, rerun, kpi, save, norm, pipe, pager>>

\* process_pipeline with no scrape file: logs an error and returns
ProcessNoScrape ==
    /\ runs < MaxRuns
    /\ ~scrape.exists
    /\ runs' = runs + 1
    /\ UNCHANGED <<now, scrape, listings, priceLog, soldLog, published, rerun, kpi, save, norm, pipe, pager>>

\* process_pipeline: load, process, detect, update, save
ProcessPipeline ==
    /\ runs < MaxRuns
    /\ scrape.exists
    /\ LET previous_df == load_previous_listings
           current_df == process_new_scrape(scrape.rows, now)
       IN  save_processed_data(reconcile(current_df, previous_df, now))
    /\ scrape' = [scrape EXCEPT !.processed = TRUE]
    /\ runs' = runs + 1
    /\ UNCHANGED <<now, published, rerun, kpi, save, norm, pipe, pager>>

Next == Tick \/ ScrapeVinted \/ ProcessNoScrape \/ ProcessPipeline

Spec == Init /\ [][Next]_vars

----------------------------------------------------------------------------
(* Properties of the pipeline runs *)

Rows(df) == 1..Len(df)

\* the events a run appended to a log
Appended(log, logAfter) == SubSeq(logAfter, Len(log) + 1, Len(logAfter))

\* a step of process_pipeline that reached the reconciliation
IsPipelineRun == runs' = runs + 1 /\ scrape.exists

UniqueEventIds(log) ==
    \A i, j \in Rows(log) : log[i].event_id = log[j].event_id => i = j

\* C1: status monotonicity.  A listing that is 'sold' after one run is never
\* 'active' after a later run, also when its item_id shows up again in a later
\* snapshot.
C1_SoldNeverRevertsToActive ==
    [][\A i \in Rows(listings) : \A j \in Rows(listings') :
          (listings[i].status = "sold" /\ listings'[j].item_id = listings[i].item_id)
              => listings'[j].status # "active"]_vars

\* C2: the persisted sold-event log holds at most one SoldEvent per item_id.
C2_OneSoldEventPerItem ==
    \A i, j \in Rows(soldLog) : soldLog[i].item_id = soldLog[j].item_id => i = j

\* C4: an active item of the previous table that is absent from the current
\* snapshot and has been missing for less than the missing threshold stays
\* 'active' in the updated table, and the run emits no SoldEvent for it.
C4_BelowThresholdStaysActive ==
    [][IsPipelineRun =>
        \A i \in Rows(listings) :
            (/\ listings[i].status = "active"
             /\ listings[i].item_id \notin ItemIds(scrape.rows)
             /\ now - Val(listings[i].last_seen_at) < hours_threshold_arg)
            => /\ \A j \in Rows(listings') :
                    listings'[j].item_id = listings[i].item_id
                        => listings'[j].status = "active"
               /\ \A e \in Range(Appended(soldLog, soldLog')) :
                    e.item_id # listings[i].item_id]_vars

\* C5: after every save no two rows of the price-event log share an event_id,
\* and no two rows of the sold-event log share an event_id.
C5_EventIdsUnique == UniqueEventIds(priceLog) /\ UniqueEventIds(soldLog)

\* C8: every SoldEvent has days_to_sell >= 0, whatever published_at the scraper
\* supplied for the item.
C8_DaysToSellNonNegative == \A e \in Range(soldLog) : e.days_to_sell >= 0

\* C9: conservation.  After every run each row of the listings table has status
\* 'active' or 'sold', so the two counts add up to the number of rows.
C9_StatusConservation ==
    /\ \A i \in Rows(listings) : listings[i].status \in {"active", "sold"}
    /\ Len(SelectSeq(listings, LAMBDA r : r.status = "active"))
         + Len(SelectSeq(listings, LAMBDA r : r.status = "sold")) = Len(listings)

\* C9 witness: a table a run produced that holds an active and a sold listing
C9_Witness ==
    /\ runs >= 2
    /\ \E i, j \in Rows(listings) :
          listings[i].status = "active" /\ listings[j].status = "sold"

\* half the snapshot interval, in hours: 24 for the 48-hour cadence
HalfSnapshotInterval == hours_threshold_arg \div 2

\* C12: every SoldEvent a run writes has the estimated sale time last_seen_at
\* plus half the snapshot interval as its sold_at, and that time minus
\* first_seen_at as its days_to_sell.
C12_EstimatedSaleTime ==
    [][IsPipelineRun =>
        \A e \in Range(Appended(soldLog, soldLog')) :
        \A i \in Rows(listings) :
            listings[i].item_id = e.item_id =>
                /\ e.sold_at = Ts(Val(listings[i].last_seen_at) + HalfSnapshotInterval)
                /\ e.days_to_sell = Val(e.sold_at) - Val(listings[i].first_seen_at)]_vars

\* C14: once an item is marked sold its last_seen_at stays at the timestamp of
\* the last snapshot that held it: the run that marks it sold, and every later
\* run whose snapshot lacks it, leaves last_seen_at unchanged.
C14_SoldKeepsLastSeen ==
    [][IsPipelineRun =>
        \A i \in Rows(listings) : \A j \in Rows(listings') :
            (/\ listings'[j].item_id = listings[i].item_id
             /\ listings[i].item_id \notin ItemIds(scrape.rows))
            => listings'[j].last_seen_at = listings[i].last_seen_at]_vars

\* C15: first_seen_at is immutable.  A row new to the table gets the timestamp
\* of the run that first saw the item, and no step changes the first_seen_at of
\* a row already in the table, whether the item stays active, is marked sold, or
\* shows up again after it was marked sold.
C15_FirstSeenImmutable ==
    [][/\ \A i \in Rows(listings) :
            \E j \in Rows(listings') : listings'[j].item_id = listings[i].item_id
       /\ \A j \in Rows(listings') :
            IF listings'[j].item_id \in ItemIds(listings)
            THEN \A i \in Rows(listings) :
                    listings[i].item_id = listings'[j].item_id
                        => listings'[j].first_seen_at = listings[i].first_seen_at
            ELSE /\ listings'[j].item_id \in ItemIds(scrape.rows)
                 /\ listings'[j].first_seen_at = Ts(now)]_vars

\* C15 witness: an item first seen at hour 0, marked sold by a later run, is in
\* a still later snapshot again and keeps hour 0 as its first_seen_at
C15_Witness ==
    \E i \in Rows(listings) :
        /\ listings[i].status = "active"
        /\ listings[i].first_seen_at = Ts(0)
        /\ listings[i].last_seen_at # Ts(0)
        /\ \E e \in Range(soldLog) :
              e.item_id = listings[i].item_id /\ Val(e.sold_at) < Val(listings[i].last_seen_at)

\* C16: after every run each row of the listings table has
\* first_seen_at <= last_seen_at.
C16_FirstSeenBeforeLastSeen ==
    \A i \in Rows(listings) :
        Val(listings[i].first_seen_at) <= Val(listings[i].last_seen_at)

\* C16 witness: a table with a row seen again after its first run, a row marked
\* sold after its first run, or a row new in a later run
C16_Witness ==
    /\ runs >= 2
    /\ \E i, j \in Rows(listings) :
          /\ listings[i].status = "active"
          /\ Val(listings[i].first_seen_at) < Val(listings[i].last_seen_at)
          /\ listings[j].status = "sold"
          /\ Val(listings[j].first_seen_at) < Val(listings[j].last_seen_at)

UniqueItemIds(df) == \A i, j \in Rows(df) : df[i].item_id = df[j].item_id => i = j

\* C17: no listing is removed.  After a run whose previous table and snapshot
\* are each unique by item_id, the persisted table has exactly one row for every
\* item_id of the previous table or the snapshot, and no other row.
C17_NoListingRemoved ==
    [][(IsPipelineRun /\ UniqueItemIds(listings) /\ UniqueItemIds(scrape.rows)) =>
        /\ ItemIds(listings') = ItemIds(listings) \cup ItemIds(scrape.rows)
        /\ UniqueItemIds(listings')]_vars

\* C17 witness: the table after a run whose snapshot lacked an item of the
\* previous table and brought an item the previous table lacked
C17_Witness ==
    /\ scrape.exists /\ scrape.processed
    /\ runs >= 2
    /\ Len(listings) > Len(scrape.rows)
    /\ \E i, j \in Rows(listings) :
          /\ listings[i].item_id \notin ItemIds(scrape.rows)
          /\ listings[j].first_seen_at = listings[j].last_seen_at
          /\ listings[j].first_seen_at # listings[i].first_seen_at

\* C18: a run emits exactly one PriceChangeEvent for every item that is in the
\* previous table and in the snapshot with a different price, with old_price the
\* previous price and new_price the current one, and none for any other item.
C18_PriceEventsExact ==
    [][IsPipelineRun =>
        \A id \in Items :
            LET evs == SelectSeq(Appended(priceLog, priceLog'), LAMBDA e : e.item_id = id)
                prev == isin(listings, {id})
                cur == isin(scrape.rows, {id})
            IN  IF Len(prev) > 0 /\ Len(cur) > 0 /\ cur[1].price # prev[1].price
                THEN /\ Len(evs) = 1
                     /\ evs[1].old_price = prev[1].price
                     /\ evs[1].new_price = cur[1].price
                ELSE Len(evs) = 0]_vars

\* C18 witness: one run's batch with an event for the repriced item while the
\* other item, at an unchanged price in both tables, has none
C18_Witness ==
    /\ Len(priceLog) = 1
    /\ scrape.exists /\ scrape.processed
    /\ Len(scrape.rows) = 2
    /\ priceLog[1].changed_at = Ts(now)
    /\ priceLog[1].old_price # priceLog[1].new_price
    /\ \A i \in Rows(listings) : Val(listings[i].first_seen_at) < now

\* C19: the first run (no previous table, or an empty one) writes exactly the
\* snapshot's rows, all 'active' with first_seen_at = last_seen_at = the run's
\* timestamp, and leaves both event logs as they were.
C19_FirstRun ==
    [][(IsPipelineRun /\ Len(listings) = 0) =>
        /\ Len(listings') = Len(scrape.rows)
        /\ \A i \in Rows(scrape.rows) :
              listings'[i] = [item_id       |-> scrape.rows[i].item_id,
                              price         |-> scrape.rows[i].price,
                              status        |-> "active",
                              first_seen_at |-> Ts(now),
                              last_seen_at  |-> Ts(now),
                              published_at  |-> scrape.rows[i].published_at]
        /\ priceLog' = priceLog
        /\ soldLog' = soldLog]_vars

\* C19 witness: the table of a first run made at hour 24, the logs still absent
C19_Witness ==
    /\ runs = 1
    /\ Len(listings) = Cardinality(Items)
    /\ \A i \in Rows(listings) : listings[i].first_seen_at = Ts(TickHours)
    /\ priceLog = <<>> /\ soldLog = <<>>

\* C22: the sold_confidence of every SoldEvent a run writes is 0.0, 0.5 or 1.0
\* (0, 5, 10 tenths) by time_missing = now - last_seen_at: at least 48 h gives
\* 1.0, at least 24 h and under 48 h gives 0.5, under 24 h gives 0.0; the step
\* function never decreases as time_missing grows.
C22_ConfidenceStep ==
    [][IsPipelineRun =>
        /\ \A e \in Range(Appended(soldLog, soldLog')) :
           \A i \in Rows(listings) :
              listings[i].item_id = e.item_id =>
                 LET time_missing == now - Val(listings[i].last_seen_at)
                 IN  /\ e.sold_confidence \in {0, 5, 10}
                     /\ e.sold_confidence =
                           IF time_missing >= 48 THEN 10
                           ELSE IF time_missing >= 24 THEN 5
                           ELSE 0
        /\ \A d \in 0..(MaxTicks * TickHours) :
              sold_confidence(d) <= sold_confidence(d + 1)]_vars

\* C22 witness: a log with an event of an item missing 48 hours or more (1.0)
\* and an event of an item that disappeared within the hour (0.0)
C22_Witness ==
    /\ \E e \in Range(soldLog) : e.sold_confidence = 10
    /\ \E e \in Range(soldLog) : e.sold_confidence = 0

\* A maximum listing age for the claim below: detect_sold_items has no such
\* parameter, so any finite value can stand for the configured one; this one
\* lies inside the ages the runs of the model reach.
MaxAgeCutoff == TickHours

\* C23: no SoldEvent is emitted for a disappeared item whose listing age at
\* disappearance time (detection time minus first_seen_at) exceeds the maximum
\* age cutoff.
C23_NoSoldEventPastCutoff ==
    \A e \in Range(soldLog) :
        Val(e.sold_at) - Val(e.first_seen_at) <= MaxAgeCutoff

\* C24: the event logs are append-only.  Every event of the persisted
\* price-event and sold-event logs is still there, at its place and with the
\* same field values, after every step, and a run whose batch for a log is empty
\* leaves that log as it was.
C24_LogsAppendOnly ==
    [][/\ Len(priceLog') >= Len(priceLog)
       /\ SubSeq(priceLog', 1, Len(priceLog)) = priceLog
       /\ Len(soldLog') >= Len(soldLog)
       /\ SubSeq(soldLog', 1, Len(soldLog)) = soldLog
       /\ IsPipelineRun =>
            LET out == reconcile(process_new_scrape(scrape.rows, now), listings, now)
            IN  /\ Len(out.price_events_df) = 0 => priceLog' = priceLog
                /\ Len(out.sold_events_df) = 0 => soldLog' = soldLog]_vars

\* C24 witness: both logs hold the events of two runs made at different hours
C24_Witness ==
    /\ \E i, j \in Rows(priceLog) : i < j /\ priceLog[i].changed_at # priceLog[j].changed_at
    /\ \E i, j \in Rows(soldLog) : i < j /\ soldLog[i].sold_at # soldLog[j].sold_at

\* C28: after every completed run the item_ids with a SoldEvent in the
\* persisted sold-event log are exactly the item_ids whose row of the persisted
\* listings table has status 'sold'.
C28_SoldLogMatchesListings ==
    {e.item_id : e \in Range(soldLog)}
        = {r.item_id : r \in {x \in Range(listings) : x.status = "sold"}}

\* C29: a scrape file is reconciled at most once.  A run started when the
\* newest scrape file is one an earlier run already processed changes no
\* listing's last_seen_at or status and appends no event to either log.
C29_ScrapeReconciledOnce ==
    [][(IsPipelineRun /\ scrape.processed) =>
        /\ \A i \in Rows(listings) : \A j \in Rows(listings') :
              listings'[j].item_id = listings[i].item_id =>
                 /\ listings'[j].last_seen_at = listings[i].last_seen_at
                 /\ listings'[j].status = listings[i].status
        /\ priceLog' = priceLog
        /\ soldLog' = soldLog]_vars

----------------------------------------------------------------------------
(* The reconciliation applied twice to one (previous, current) pair.  The     *)
(* previous table is the output of a first run at time 0, the current one a    *)
(* processed snapshot; the four functions are then called twice on that pair,  *)
(* the clock advancing or not in between.                                      *)

InitRerun ==
    /\ now = 0
    /\ scrape = [exists |-> FALSE, rows |-> <<>>, processed |-> FALSE]
    /\ priceLog = <<>>
    /\ soldLog = <<>>
    /\ runs = 0
    /\ kpi = KpiIdle
    /\ save = SaveIdle
    /\ norm = NormIdle
    /\ pipe = PipeIdle
    /\ pager = PagerIdle
    /\ published \in [Items -> PublishedValues]
    /\ \E s0 \in Snapshots :
          /\ listings = update_listings_database(process_new_scrape(s0, 0), <<>>, 0)
          /\ rerun = [RerunIdle EXCEPT !.phase = "start", !.previous_df = listings]

RerunLoad ==
    /\ rerun.phase = "start"
    /\ \E s1 \in Snapshots :
          rerun' = [rerun EXCEPT !.phase = "loaded",
                                 !.current_df = process_new_scrape(s1, now)]
    /\ UNCHANGED <<now, scrape, listings, priceLog, soldLog, runs, published, kpi, save, norm, pipe, pager>>

RerunReconcile ==
    /\ rerun.phase \in {"loaded", "once"}
    /\ LET out == reconcile(rerun.current_df, rerun.previous_df, now)
       IN  /\ save_processed_data(out)
           /\ rerun' = IF rerun.phase = "loaded"
                       THEN [rerun EXCEPT !.phase = "once", !.out1 = out,
                                          !.files1 = saved(out)]
                       ELSE [rerun EXCEPT !.phase = "twice", !.out2 = out]
    /\ UNCHANGED <<now, scrape, runs, published, kpi, save, norm, pipe, pager>>

NextRerun == Tick \/ RerunLoad \/ RerunReconcile

SpecRerun == InitRerun /\ [][NextRerun]_vars

\* C3: idempotent reconciliation.  Running the reconciliation twice on the same
\* (previous, current) pair gives the same three outputs, leaves the persisted
\* files as the first run left them (the second run adds no event), and leaves
\* no duplicate event_id in the logs.
C3_RerunIdempotent ==
    rerun.phase = "twice" =>
        /\ rerun.out2 = rerun.out1
        /\ listings = rerun.files1.listings
        /\ priceLog = rerun.files1.priceLog
        /\ soldLog = rerun.files1.soldLog
        /\ UniqueEventIds(priceLog)
        /\ UniqueEventIds(soldLog)

----------------------------------------------------------------------------
(* save_processed_data write by write.  The function rewrites listings.parquet *)
(* in place, then price_events.parquet, then sold_events.parquet, then writes  *)
(* a backup copy; the process can be killed between any two of the writes.     *)
(* A killed call has not returned: the scrape file it read is still the newest *)
(* one, and the next call reads it again.                                      *)

\* the files a call found when it started
files == [listings |-> listings, priceLog |-> priceLog, soldLog |-> soldLog]

\* process_pipeline up to the call of save_processed_data
BeginSave ==
    /\ runs < MaxRuns
    /\ scrape.exists
    /\ save.pc \in {"idle", "interrupted"}
    /\ LET previous_df == load_previous_listings
           current_df == process_new_scrape(scrape.rows, now)
       IN  save' = [pc |-> "listings", before |-> files,
                    out |-> reconcile(current_df, previous_df, now)]
    /\ runs' = runs + 1
    /\ UNCHANGED <<now, scrape, listings, priceLog, soldLog, published, rerun, kpi, norm, pipe, pager>>

\* listings_df.to_parquet(listings_file)
WriteListings ==
    /\ save.pc = "listings"
    /\ listings' = dropna(save.out.updated_listings_df)
    /\ save' = [save EXCEPT !.pc = "price_events"]
    /\ UNCHANGED <<now, scrape, priceLog, soldLog, runs, published, rerun, kpi, norm, pipe, pager>>

\* the append to price_events.parquet
WritePriceEvents ==
    /\ save.pc = "price_events"
    /\ priceLog' = append_events(priceLog, save.out.price_events_df)
    /\ save' = [save EXCEPT !.pc = "sold_events"]
    /\ UNCHANGED <<now, scrape, listings, soldLog, runs, published, rerun, kpi, norm, pipe, pager>>

\* the append to sold_events.parquet
WriteSoldEvents ==
    /\ save.pc = "sold_events"
    /\ soldLog' = append_events(soldLog, save.out.sold_events_df)
    /\ save' = [save EXCEPT !.pc = "backup"]
    /\ UNCHANGED <<now, scrape, listings, priceLog, runs, published, rerun, kpi, norm, pipe, pager>>

\* the timestamped backup copy, and the return of process_pipeline
WriteBackup ==
    /\ save.pc = "backup"
    /\ save' = SaveIdle
    /\ scrape' = [scrape EXCEPT !.processed = TRUE]
    /\ UNCHANGED <<now, listings, priceLog, soldLog, runs, published, rerun, kpi, norm, pipe, pager>>

\* the process is killed inside save_processed_data
Interrupt ==
    /\ save.pc \in {"listings", "price_events", "sold_events", "backup"}
    /\ save' = [save EXCEPT !.pc = "interrupted"]
    /\ UNCHANGED <<now, scrape, listings, priceLog, soldLog, runs, published, rerun, kpi, norm, pipe, pager>>

NextSave ==
    \/ Tick
    \/ ScrapeVinted
    \/ BeginSave
    \/ WriteListings
    \/ WritePriceEvents
    \/ WriteSoldEvents
    \/ WriteBackup
    \/ Interrupt

SpecSave == Init /\ [][NextSave]_vars

\* C13: an interrupted save leaves no mix of pre-run and post-run data.  After a
\* run was interrupted inside save_processed_data the persisted listings table
\* is the old one or the new one, and if it holds rows the run newly marked sold
\* then the run's SoldEvents are in the sold-event log.
C13_InterruptedSaveNotMixed ==
    save.pc = "interrupted" =>
        LET new == dropna(save.out.updated_listings_df)
            batch == save.out.sold_events_df
            newly_sold == {e.item_id : e \in Range(batch)}
                            \cap {r.item_id : r \in {x \in Range(save.before.listings) :
                                                        x.status = "active"}}
        IN  /\ listings \in {save.before.listings, new}
            /\ (listings = new /\ newly_sold # {}) =>
                    soldLog = save.before.soldLog \o batch

----------------------------------------------------------------------------
(* A scrape file the scrapers did not write.  load_latest_scrape takes the     *)
(* newest vinted_scrape_*.csv of data/scrapes, data/ or the working directory, *)
(* whoever put it there; only the scrapers' own save drops repeated item_ids.  *)

\* a file with two records of one item_id, their prices equal or not
DuplicatedSnapshots ==
    {df \in [1..2 -> [item_id : Items, price : Prices, published_at : PublishedValues]] :
        /\ df[1].item_id = df[2].item_id
        /\ \A i \in 1..Len(df) : df[i].published_at = published[df[i].item_id]}

\* the newest scrape file is one with a repeated item_id
PlaceScrapeFile ==
    /\ runs < MaxRuns
    /\ scrape.exists => scrape.processed
    /\ \E df \in DuplicatedSnapshots :
          scrape' = [exists |-> TRUE, rows |-> df, processed |-> FALSE]
    /\ UNCHANGED <<now, listings, priceLog, soldLog, runs, published, rerun, kpi, save, norm, pipe, pager>>

NextPlaced == Tick \/ ScrapeVinted \/ PlaceScrapeFile \/ ProcessNoScrape \/ ProcessPipeline

SpecPlaced == Init /\ [][NextPlaced]_vars

\* C20: a run whose snapshot holds two records with the same item_id fails
\* before anything is written: the listings table and both event logs are left
\* as the run found them.
C20_DuplicateSnapshotRejected ==
    [][(IsPipelineRun /\ ~UniqueItemIds(scrape.rows)) =>
            UNCHANGED <<listings, priceLog, soldLog, norm, pipe, pager>>]_vars

----------------------------------------------------------------------------
(* run_pipeline.py: main runs the scraper, process_data.py and                 *)
(* calculate_kpis.py as child processes, one after the other, and reads each   *)
(* child's exit code.                                                          *)

\* the exit code of a child: an exception that escapes makes it non-zero, a
\* plain return from the script leaves it 0
exit_code(raised) == IF raised THEN 1 ELSE 0

\* run_command: subprocess.run(check=True) raises on a non-zero exit code
run_command(code) == code = 0

\* what main does with the value run_command returned for a stage; only a
\* warning is logged for the KPI stage
next_stage_kpi_fatal(stage, success) ==
    IF stage = "scrape" THEN (IF success THEN "process" ELSE "failed")
    ELSE IF stage = "process" THEN (IF success THEN "kpi" ELSE "failed")
    ELSE (IF success THEN "done" ELSE "failed")

next_stage(stage, success) ==
    IF stage = "scrape" THEN (IF success THEN "process" ELSE "failed")
    ELSE IF stage = "process" THEN (IF success THEN "kpi" ELSE "failed")
    ELSE "done"

\* main's bookkeeping of one run_command call
ran(stage, success) ==
    [pipe EXCEPT !.stage = next_stage(stage, success),
                 !.started = Append(pipe.started, stage),
                 !.results = Append(pipe.results, success)]

StartPipeline ==
    /\ runs < MaxRuns
    /\ pipe.stage \in {"idle", "done", "failed"}
    /\ pipe' = [PipeIdle EXCEPT !.stage = "deps"]
    /\ runs' = runs + 1
    /\ UNCHANGED <<now, scrape, listings, priceLog, soldLog, published, rerun, kpi, save, norm, pager>>

\* check_dependencies: a missing package ends main with sys.exit(1)
CheckDependencies ==
    /\ pipe.stage = "deps"
    /\ \E ok \in BOOLEAN :
          pipe' = [pipe EXCEPT !.stage = IF ok THEN "scrape" ELSE "failed"]
    /\ UNCHANGED <<now, scrape, listings, priceLog, soldLog, runs, published, rerun, kpi, save, norm, pager>>

\* vinted_scraper.py: it writes a scrape file, or collects no data and returns
\* without writing one, or dies of an exception
RunScraper ==
    /\ pipe.stage = "scrape"
    /\ \/ /\ \E df \in Snapshots :
                scrape' = [exists |-> TRUE, rows |-> df, processed |-> FALSE]
          /\ pipe' = ran("scrape", run_command(exit_code(FALSE)))
       \/ /\ UNCHANGED scrape
          /\ pipe' = ran("scrape", run_command(exit_code(FALSE)))
       \/ /\ UNCHANGED scrape
          /\ pipe' = ran("scrape", run_command(exit_code(TRUE)))
    /\ UNCHANGED <<now, listings, priceLog, soldLog, runs, published, rerun, kpi, save, norm, pager>>

\* process_data.py: process_pipeline returns without a scrape file, runs to the
\* end with one, or dies of an exception while it reads its input
RunProcess ==
    /\ pipe.stage = "process"
    /\ \/ /\ ~scrape.exists
          /\ pipe' = ran("process", run_command(exit_code(FALSE)))
          /\ UNCHANGED <<scrape, listings, priceLog, soldLog, pager>>
       \/ /\ scrape.exists
          /\ LET previous_df == load_previous_listings
                 current_df == process_new_scrape(scrape.rows, now)
             IN  save_processed_data(reconcile(current_df, previous_df, now))
          /\ scrape' = [scrape EXCEPT !.processed = TRUE]
          /\ pipe' = ran("process", run_command(exit_code(FALSE)))
       \/ /\ scrape.exists
          /\ pipe' = ran("process", run_command(exit_code(TRUE)))
          /\ UNCHANGED <<scrape, listings, priceLog, soldLog, pager>>
    /\ UNCHANGED <<now, runs, published, rerun, kpi, save, norm, pager>>

\* calculate_kpis.py: main re-raises whatever its calculation raises
RunKpis ==
    /\ pipe.stage = "kpi"
    /\ \E raised \in BOOLEAN :
          pipe' = ran("kpi", run_command(exit_code(raised)))
    /\ UNCHANGED <<now, scrape, listings, priceLog, soldLog, runs, published, rerun, kpi, save, norm, pager>>

NextPipeline ==
    \/ Tick
    \/ StartPipeline
    \/ CheckDependencies
    \/ RunScraper
    \/ RunProcess
    \/ RunKpis

SpecPipeline == Init /\ [][NextPipeline]_vars

\* C26: with no snapshot to process, process_pipeline ends in an error outcome
\* its caller can tell apart from a successful run (run_command returns False
\* for the processing stage), and the listings table and both event logs are
\* left unchanged.
C26_MissingInputIsAnError ==
    [][(pipe.stage = "process" /\ ~scrape.exists /\ pipe'.stage # "process") =>
            /\ pipe'.results[Len(pipe'.results)] = FALSE
            /\ UNCHANGED <<listings, priceLog, soldLog, pager>>]_vars

StageOrder == <<"scrape", "process", "kpi">>

\* C27: the stages start in the order scrape, process, KPI; processing is
\* started only after the scraper stage returned success, the KPI stage only
\* after the processing stage returned success, and the pipeline completes
\* whatever the KPI stage returned.
C27_StageOrder ==
    /\ Len(pipe.started) <= Len(StageOrder)
    /\ pipe.started = SubSeq(StageOrder, 1, Len(pipe.started))
    /\ Len(pipe.results) = Len(pipe.started)
    /\ \A i \in 1..(Len(pipe.started) - 1) : pipe.results[i]
    /\ pipe.stage = "process" => (pipe.started = <<"scrape">> /\ pipe.results[1])
    /\ pipe.stage = "kpi" => (pipe.started = <<"scrape", "process">> /\ pipe.results[2])
    /\ Len(pipe.started) = Len(StageOrder) => pipe.stage = "done"

\* C27 witness: a pipeline that completed although its KPI stage failed
C27_Witness ==
    /\ pipe.stage = "done"
    /\ pipe.results = <<TRUE, TRUE, FALSE>>
    /\ Len(listings) > 0

----------------------------------------------------------------------------
(* vinted_scraper_enhanced.py: the page loop of scrape_vinted for one combo,   *)
(* a `while page_num <= max_pages_limit` around a `for attempt in              *)
(* range(retries)`.  A response is a failure (an HTTP status other than 200,   *)
(* an exception) or a success with an empty, a short (fewer than per_page      *)
(* items) or a full page and a next_page flag.  `fetched` lists the page       *)
(* numbers of the successful non-empty responses, `late` counts the requests   *)
(* issued after a success that reported the end of the results.                *)

MaxPages == 2            \* the combo's max_pages
MaxRequests == 4         \* successful responses explored for one combo
retries == 3

Responses ==
    [ok : {FALSE}, size : {"empty"}, next_page : {FALSE}]
        \cup [ok : {TRUE}, size : {"empty", "short", "full"}, next_page : BOOLEAN]

\* page_num = 1 and the combo's max_pages, before the while loop
StartCombo ==
    /\ pager.pc = "idle"
    /\ pager' = [PagerIdle EXCEPT !.pc = "while", !.page_num = 1]
    /\ UNCHANGED <<now, scrape, listings, priceLog, soldLog, runs, published, rerun, kpi, save, norm, pipe>>

\* while page_num <= max_pages_limit: items = []
WhileTest ==
    /\ pager.pc = "while"
    /\ pager' = IF pager.page_num <= MaxPages
                THEN [pager EXCEPT !.pc = "attempt", !.attempt = 0, !.items = "empty"]
                ELSE [pager EXCEPT !.pc = "done"]
    /\ UNCHANGED <<now, scrape, listings, priceLog, soldLog, runs, published, rerun, kpi, save, norm, pipe>>

\* one pass of the retry loop: the request, and what the body does with the
\* response.  Every `break` of the body leaves the retry loop, not the while.
Attempt ==
    /\ pager.pc = "attempt"
    /\ Len(pager.fetched) < MaxRequests
    /\ \E response \in Responses :
       LET requested == [pager EXCEPT !.late = IF pager.stop_seen THEN 1 ELSE pager.late]
       IN  pager' =
             IF ~response.ok
             THEN IF pager.attempt < retries - 1
                  THEN [requested EXCEPT !.attempt = pager.attempt + 1]
                  ELSE [requested EXCEPT !.pc = "after"]
             ELSE IF response.size = "empty"
             THEN [requested EXCEPT !.pc = "after", !.items = "empty"]
             ELSE IF ~response.next_page \/ response.size = "short"
             THEN [requested EXCEPT !.pc = "after", !.items = response.size,
                                    !.fetched = Append(pager.fetched, pager.page_num),
                                    !.stop_seen = TRUE]
             ELSE [requested EXCEPT !.pc = "after", !.items = response.size,
                                    !.fetched = Append(pager.fetched, pager.page_num),
                                    !.page_num = pager.page_num + 1]
    /\ UNCHANGED <<now, scrape, listings, priceLog, soldLog, runs, published, rerun, kpi, save, norm, pipe>>

\* after the retry loop: `if not items: break`, otherwise the delay and the
\* next pass of the while loop
AfterRetries ==
    /\ pager.pc = "after"
    /\ pager' = IF pager.items = "empty"
                THEN [pager EXCEPT !.pc = "done"]
                ELSE [pager EXCEPT !.pc = "while"]
    /\ UNCHANGED <<now, scrape, listings, priceLog, soldLog, runs, published, rerun, kpi, save, norm, pipe>>

NextScraper == StartCombo \/ WhileTest \/ Attempt \/ AfterRetries

SpecScraper == Init /\ [][NextScraper]_vars

\* C30: the page loop of a combo stops at the end of the results.  After a
\* successful response that reports no next page or fewer than per_page items no
\* further request is issued, no page number is fetched successfully more than
\* once, and at most max_pages pages are collected.
C30_PageLoopStops ==
    /\ pager.late = 0
    /\ \A i, j \in 1..Len(pager.fetched) : pager.fetched[i] = pager.fetched[j] => i = j
    /\ Len(pager.fetched) <= MaxPages

----------------------------------------------------------------------------
(* calculate_kpis.py.  Floats are exact rationals [n, d] with d > 0.  A filter  *)
(* argument is a set of values, the empty set standing for None (`if brand:`   *)
(* treats None and an empty list alike).  The no-data result None is the       *)
(* record [none |-> TRUE].  The audience and season filters work like the      *)
(* category filter and are left out.                                           *)

R(k) == [n |-> k, d |-> 1]
RAdd(a, b) == [n |-> a.n * b.d + b.n * a.d, d |-> a.d * b.d]
RSub(a, b) == [n |-> a.n * b.d - b.n * a.d, d |-> a.d * b.d]
RMul(a, b) == [n |-> a.n * b.n, d |-> a.d * b.d]
\* a / b for b > 0
RDiv(a, b) == [n |-> a.n * b.d, d |-> a.d * b.n]
RLeq(a, b) == a.n * b.d <= b.n * a.d
RMax(a, b) == IF RLeq(a, b) THEN b ELSE a

None == [none |-> TRUE]

HoursPerDay == 24

\* a days_to_sell column value (kept in hours) as the float the code sees
Days(hours) == [n |-> hours, d |-> HoursPerDay]

RECURSIVE Insert(_, _)
Insert(x, s) ==
    IF Len(s) = 0 THEN <<x>>
    ELSE IF x <= Head(s) THEN <<x>> \o s
    ELSE <<Head(s)>> \o Insert(x, Tail(s))

RECURSIVE SortValues(_)
SortValues(s) == IF Len(s) = 0 THEN <<>> ELSE Insert(Head(s), SortValues(Tail(s)))

RECURSIVE Sum(_)
Sum(s) == IF Len(s) = 0 THEN 0 ELSE Head(s) + Sum(Tail(s))

\* Series.quantile(qn / qd) with linear interpolation, over a non-empty column
quantile(values, qn, qd) ==
    LET v == SortValues(values)
        pos == qn * (Len(v) - 1)
        lo == pos \div qd
        rem == pos % qd
        hi == IF rem = 0 THEN lo ELSE lo + 1
    IN  [n |-> v[lo + 1] * qd + rem * (v[hi + 1] - v[lo + 1]), d |-> qd]

median(values) == quantile(values, 1, 2)

brand_col(r) == IF "brand_norm" \in DOMAIN r THEN r.brand_norm ELSE r.brand
cat_col(r) == IF "category_norm" \in DOMAIN r THEN r.category_norm ELSE r.category

apply_filters(df, brand, category, status) ==
    LET by_brand == IF brand # {}
                    THEN SelectSeq(df, LAMBDA r : brand_col(r) \in brand) ELSE df
        by_category == IF category # {}
                       THEN SelectSeq(by_brand, LAMBDA r : cat_col(r) \in category)
                       ELSE by_brand
    IN  IF status # {}
        THEN SelectSeq(by_category,
                       LAMBDA r : "status" \in DOMAIN r => r.status \in status)
        ELSE by_category

\* sold_confidence >= 0.5, in tenths
MinConfidence == 5

high_confidence(filtered) ==
    SelectSeq(filtered, LAMBDA e : e.sold_confidence >= MinConfidence)

calculate_days_to_sell(sold_events_df, brand, category) ==
    IF Len(sold_events_df) = 0 THEN None
    ELSE LET hc == high_confidence(apply_filters(sold_events_df, brand, category, {}))
             dts == [i \in 1..Len(hc) |-> hc[i].days_to_sell]
             sorted == SortValues(dts)
         IN  IF Len(hc) = 0 THEN None
             ELSE [none   |-> FALSE,
                   median |-> RDiv(median(dts), R(HoursPerDay)),
                   mean   |-> RDiv(Days(Sum(dts)), R(Len(dts))),
                   p25    |-> RDiv(quantile(dts, 1, 4), R(HoursPerDay)),
                   p75    |-> RDiv(quantile(dts, 3, 4), R(HoursPerDay)),
                   count  |-> Len(hc),
                   min    |-> Days(sorted[1]),
                   max    |-> Days(sorted[Len(sorted)])]

\* the 30 of `days_to_sell <= 30`
SellThroughDays == 30

\* the rate taken over the filtered listings instead of the high-confidence sales
sell_through_over_listings(sold_events_df, listings_df, brand, category) ==
    IF Len(sold_events_df) = 0 THEN None
    ELSE LET hc == high_confidence(apply_filters(sold_events_df, brand, category, {}))
             sold_30d == SelectSeq(hc, LAMBDA e : RLeq(Days(e.days_to_sell), R(SellThroughDays)))
             eligible == apply_filters(listings_df, brand, category, {})
         IN  IF Len(hc) = 0 \/ Len(eligible) = 0 THEN None
             ELSE [none       |-> FALSE,
                   percentage |-> RMul(RDiv(R(Len(sold_30d)), R(Len(eligible))), R(100)),
                   sold_30d   |-> Len(sold_30d),
                   total_sold |-> Len(hc)]

\* listings_df is a parameter the body never reads
calculate_sell_through_30d(sold_events_df, listings_df, brand, category) ==
    IF Len(sold_events_df) = 0 THEN None
    ELSE LET hc == high_confidence(apply_filters(sold_events_df, brand, category, {}))
             sold_30d == SelectSeq(hc, LAMBDA e : RLeq(Days(e.days_to_sell), R(SellThroughDays)))
         IN  IF Len(hc) = 0 THEN None
             ELSE [none       |-> FALSE,
                   percentage |-> RMul(RDiv(R(Len(sold_30d)), R(Len(hc))), R(100)),
                   sold_30d   |-> Len(sold_30d),
                   total_sold |-> Len(hc)]

max_dts == 30

grade(score) ==
    IF RLeq(R(75), score) THEN "A"
    ELSE IF RLeq(R(50), score) THEN "B"
    ELSE IF RLeq(R(25), score) THEN "C"
    ELSE "D"

calculate_liquidity_score(dts_stats, sell_through_stats) ==
    IF dts_stats.none \/ sell_through_stats.none THEN None
    ELSE LET sell_through_score ==
                 RMul(RDiv(sell_through_stats.percentage, R(100)), R(50))
             dts_score ==
                 RMax(R(0), RMul(RSub(R(1), RDiv(dts_stats.median, R(max_dts))), R(50)))
         IN  [none |-> FALSE,
              score |-> RAdd(sell_through_score, dts_score),
              sell_through_component |-> sell_through_score,
              dts_component |-> dts_score,
              grade |-> grade(RAdd(sell_through_score, dts_score))]

calculate_all_kpis(listings_df, sold_events_df, brand, category) ==
    LET dts == calculate_days_to_sell(sold_events_df, brand, category)
        st == calculate_sell_through_30d(sold_events_df, listings_df, brand, category)
    IN  [dts |-> dts, sell_through_30d |-> st,
         liquidity |-> calculate_liquidity_score(dts, st)]

----------------------------------------------------------------------------
(* KPI queries over bounded tables *)

MaxListings == 2         \* rows of the listings table of a KPI query
MaxSoldEvents == 2       \* rows of the sold-event log of a KPI query
Brands == {"Zara", "Mango"}
Categories == {"Dress"}
BrandFilters == {{}, {"Zara"}, {"Nike"}}
CategoryFilters == {{}, {"Jeans"}}
\* days_to_sell values in hours: -1 day (a published_at ahead of the clock),
\* 10 days, 40 days
DaysToSellValues == {0 - 24, 240, 960}

Tables(RowSet, maxLen) == UNION {[1..n -> RowSet] : n \in 0..maxLen}

KpiListingRow ==
    [brand_norm : Brands, category_norm : Categories, status : {"active", "sold"}]

KpiSoldRow ==
    [brand : Brands, category : Categories, sold_confidence : {0, 5, 10},
     days_to_sell : DaysToSellValues]

\* A sold event is only ever written for an item of the listings table, and no
\* run removes a row: a log with events goes with a table with rows.
InitKpi ==
    /\ now = 0
    /\ scrape = [exists |-> FALSE, rows |-> <<>>, processed |-> FALSE]
    /\ listings = <<>>
    /\ priceLog = <<>>
    /\ soldLog = <<>>
    /\ runs = 0
    /\ published = [i \in Items |-> NaT]
    /\ rerun = RerunIdle
    /\ save = SaveIdle
    /\ norm = NormIdle
    /\ pipe = PipeIdle
    /\ pager = PagerIdle
    /\ \E l \in Tables(KpiListingRow, MaxListings) :
       \E e \in Tables(KpiSoldRow, MaxSoldEvents) :
          /\ Len(e) > 0 => Len(l) > 0
          /\ kpi = [KpiIdle EXCEPT !.phase = "loaded",
                                   !.listings_df = l, !.sold_events_df = e]

CalculateAllKpis ==
    /\ kpi.phase = "loaded"
    /\ \E brand \in BrandFilters, category \in CategoryFilters :
          kpi' = [kpi EXCEPT
                    !.phase = "done", !.brand = brand, !.category = category,
                    !.kpis = calculate_all_kpis(kpi.listings_df, kpi.sold_events_df,
                                                brand, category)]
    /\ UNCHANGED <<now, scrape, listings, priceLog, soldLog, runs, published, rerun, save, norm, pipe, pager>>

NextKpi == CalculateAllKpis

SpecKpi == InitKpi /\ [][NextKpi]_vars

InRange(x, lo, hi) == RLeq(R(lo), x) /\ RLeq(x, R(hi))

\* C6: the liquidity score is within 0..100 for every pair of non-None inputs,
\* each component being at most 50.
C6_LiquidityBound ==
    (kpi.phase = "done" /\ ~kpi.kpis.liquidity.none) =>
        /\ InRange(kpi.kpis.liquidity.score, 0, 100)
        /\ RLeq(kpi.kpis.liquidity.sell_through_component, R(50))
        /\ RLeq(kpi.kpis.liquidity.dts_component, R(50))

\* C7: a sell-through result that is not the no-data sentinel has a percentage
\* within 0..100, for every table pair and filter.
C7_SellThroughBound ==
    (kpi.phase = "done" /\ ~kpi.kpis.sell_through_30d.none) =>
        InRange(kpi.kpis.sell_through_30d.percentage, 0, 100)

\* C7 witness: a filtered query whose result lies strictly between 0 and 100
C7_Witness ==
    /\ kpi.phase = "done"
    /\ kpi.brand # {}
    /\ ~kpi.kpis.sell_through_30d.none
    /\ ~RLeq(kpi.kpis.sell_through_30d.percentage, R(0))
    /\ ~RLeq(R(100), kpi.kpis.sell_through_30d.percentage)

\* C10: for a filter that matches no listing, days-to-sell and sell-through
\* both return the no-data sentinel.
C10_NoListingsNoData ==
    (kpi.phase = "done"
        /\ Len(apply_filters(kpi.listings_df, kpi.brand, kpi.category, {})) = 0)
    => (kpi.kpis.dts.none /\ kpi.kpis.sell_through_30d.none)

RMin(a, b) == IF RLeq(a, b) THEN a ELSE b

\* C11: whenever at least one listing matches the filter, the sell-through
\* result is the percentage min(100, 100 * N / D), N the matching sold events
\* with sold_confidence >= 0.5 and days_to_sell <= 30, D the matching listings.
C11_SellThroughOverListings ==
    LET eligible == apply_filters(kpi.listings_df, kpi.brand, kpi.category, {})
        hc == high_confidence(apply_filters(kpi.sold_events_df, kpi.brand, kpi.category, {}))
        sold_30d == SelectSeq(hc, LAMBDA e : RLeq(Days(e.days_to_sell), R(SellThroughDays)))
    IN  (kpi.phase = "done" /\ Len(eligible) > 0) =>
            /\ ~kpi.kpis.sell_through_30d.none
            /\ kpi.kpis.sell_through_30d.percentage.n
                   * RMin(R(100), RDiv(R(100 * Len(sold_30d)), R(Len(eligible)))).d
               = RMin(R(100), RDiv(R(100 * Len(sold_30d)), R(Len(eligible)))).n
                   * kpi.kpis.sell_through_30d.percentage.d

----------------------------------------------------------------------------
(* calculate_discount_to_sell over bounded event logs.  The KPI query here    *)
(* holds the price-event log and the sold-event log; events carry the item_id *)
(* the function joins them on.                                                *)

RECURSIVE RSum(_)
RSum(s) == IF Len(s) = 0 THEN R(0) ELSE RAdd(Head(s), RSum(Tail(s)))

RECURSIVE RInsert(_, _)
RInsert(x, s) ==
    IF Len(s) = 0 THEN <<x>>
    ELSE IF RLeq(x, Head(s)) THEN <<x>> \o s
    ELSE <<Head(s)>> \o RInsert(x, Tail(s))

RECURSIVE RSort(_)
RSort(s) == IF Len(s) = 0 THEN <<>> ELSE RInsert(Head(s), RSort(Tail(s)))

\* Series.mean() and Series.median() of a non-empty float column
RMean(s) == RDiv(RSum(s), R(Len(s)))
RMedian(s) ==
    LET v == RSort(s)
        h == Len(v) \div 2
    IN  IF Len(v) % 2 = 1 THEN v[h + 1] ELSE RDiv(RAdd(v[h], v[h + 1]), R(2))

\* ((first_price - last_price) / first_price) * 100
discount_pct(first_price, last_price) ==
    RMul(RDiv(R(first_price - last_price), R(first_price)), R(100))

\* the no-price-change result: zero discount over the filtered sold events
no_discount(filtered_sold) ==
    [none                |-> FALSE,
     avg_discount_pct    |-> R(0),
     median_discount_pct |-> R(0),
     items_with_discount |-> 0,
     total_sold_items    |-> Len(filtered_sold)]

calculate_discount_to_sell(price_events_df, sold_events_df, brand, category) ==
    IF Len(price_events_df) = 0 \/ Len(sold_events_df) = 0 THEN None
    ELSE LET filtered_sold == apply_filters(sold_events_df, brand, category, {})
             sold_item_ids == ItemIds(filtered_sold)
             sold_price_changes == isin(price_events_df, sold_item_ids)
             order == SortedSeq(sold_item_ids)
             per_item == [k \in 1..Len(order) |->
                 LET item_changes == isin(sold_price_changes, {order[k]})
                 IN  IF Len(item_changes) > 0 /\ item_changes[1].old_price > 0
                     THEN <<discount_pct(item_changes[1].old_price,
                                         item_changes[Len(item_changes)].new_price)>>
                     ELSE <<>>]
             discounts == Concat(per_item)
         IN  IF Len(filtered_sold) = 0 THEN None
             ELSE IF Len(sold_price_changes) = 0 THEN no_discount(filtered_sold)
             ELSE IF Len(discounts) = 0 THEN no_discount(filtered_sold)
             ELSE [none                |-> FALSE,
                   avg_discount_pct    |-> RMean(discounts),
                   median_discount_pct |-> RMedian(discounts),
                   items_with_discount |-> Len(discounts),
                   total_sold_items    |-> Len(filtered_sold),
                   max_discount        |-> RSort(discounts)[Len(discounts)],
                   min_discount        |-> RSort(discounts)[1]]

MaxPriceEvents == 2      \* rows of the price-event log of a discount query
EventPrices == Prices \cup {0}   \* 0.0 is the price of a record that had none

DiscountPriceRow ==
    {e \in [item_id : Items, old_price : EventPrices, new_price : EventPrices] :
        e.old_price # e.new_price}

DiscountSoldRow == [item_id : Items, brand : Brands, category : Categories]

\* a sold-event log with one event per item
DiscountSoldTables ==
    {t \in Tables(DiscountSoldRow, Cardinality(Items)) :
        \A i, j \in 1..Len(t) : t[i].item_id = t[j].item_id => i = j}

InitDiscount ==
    /\ now = 0
    /\ scrape = [exists |-> FALSE, rows |-> <<>>, processed |-> FALSE]
    /\ listings = <<>>
    /\ priceLog = <<>>
    /\ soldLog = <<>>
    /\ runs = 0
    /\ published = [i \in Items |-> NaT]
    /\ rerun = RerunIdle
    /\ save = SaveIdle
    /\ norm = NormIdle
    /\ pipe = PipeIdle
    /\ pager = PagerIdle
    /\ \E pe \in Tables(DiscountPriceRow, MaxPriceEvents) :
       \E se \in DiscountSoldTables :
          kpi = [phase |-> "loaded", price_events_df |-> pe, sold_events_df |-> se,
                 brand |-> {}, category |-> {}, kpis |-> <<>>]

CalculateDiscountToSell ==
    /\ kpi.phase = "loaded"
    /\ \E brand \in BrandFilters, category \in CategoryFilters :
          kpi' = [kpi EXCEPT
                    !.phase = "done", !.brand = brand, !.category = category,
                    !.kpis = calculate_discount_to_sell(kpi.price_events_df,
                                                        kpi.sold_events_df, brand, category)]
    /\ UNCHANGED <<now, scrape, listings, priceLog, soldLog, runs, published, rerun, save, norm, pipe, pager>>

NextDiscount == CalculateDiscountToSell

SpecDiscount == InitDiscount /\ [][NextDiscount]_vars

REq(a, b) == a.n * b.d = b.n * a.d

\* C21: for a filter matching at least one sold event, the discount result is
\* the average and the median, over all matching sold items, of the percentage
\* discount from the earliest recorded price to the final price, an item with no
\* PriceChangeEvent counting as 0%; the result is never the no-data sentinel.
C21_DiscountOverAllSold ==
    LET filtered_sold == apply_filters(kpi.sold_events_df, kpi.brand, kpi.category, {})
        expected == [k \in 1..Len(filtered_sold) |->
            LET item_changes == isin(kpi.price_events_df, {filtered_sold[k].item_id})
            IN  IF Len(item_changes) = 0 THEN R(0)
                ELSE discount_pct(item_changes[1].old_price,
                                  item_changes[Len(item_changes)].new_price)]
    IN  (/\ kpi.phase = "done"
         /\ Len(filtered_sold) > 0
         /\ \A e \in Range(kpi.price_events_df) : e.old_price > 0)
        => /\ ~kpi.kpis.none
           /\ REq(kpi.kpis.avg_discount_pct, RMean(expected))
           /\ REq(kpi.kpis.median_discount_pct, RMedian(expected))

----------------------------------------------------------------------------
(* process_data.py: the normalisers.  A string is the sequence of its          *)
(* characters, so that lower(), strip() and the `word in text` tests are       *)
(* computed; a missing value (NaN) is the one-element sequence <<"NaN">>.      *)

Missing == <<"NaN">>
isna(x) == x = Missing

UpperChars == <<"A", "B", "C", "D", "E", "F", "G", "H", "I", "J", "K", "L", "M", "N", "O", "P", "Q", "R", "S", "T", "U", "V", "W", "X", "Y", "Z">>
LowerChars == <<"a", "b", "c", "d", "e", "f", "g", "h", "i", "j", "k", "l", "m", "n", "o", "p", "q", "r", "s", "t", "u", "v", "w", "x", "y", "z">>

lower_char(c) ==
    IF \E i \in 1..Len(UpperChars) : UpperChars[i] = c
    THEN LowerChars[CHOOSE i \in 1..Len(UpperChars) : UpperChars[i] = c]
    ELSE c

lower(text) == [i \in 1..Len(text) |-> lower_char(text[i])]

RECURSIVE lstrip(_)
lstrip(text) ==
    IF Len(text) > 0 /\ Head(text) = " " THEN lstrip(Tail(text)) ELSE text

RECURSIVE rstrip(_)
rstrip(text) ==
    IF Len(text) > 0 /\ text[Len(text)] = " "
    THEN rstrip(SubSeq(text, 1, Len(text) - 1)) ELSE text

strip(text) == rstrip(lstrip(text))

\* str(x): a missing value prints as 'nan'
str(x) == IF isna(x) THEN <<"n", "a", "n">> ELSE x

\* word in text
contains(text, word) ==
    \E i \in 1..(Len(text) - Len(word) + 1) : SubSeq(text, i, i + Len(word) - 1) = word

\* any(word in text for word in words)
any_in(text, words) == \E word \in words : contains(text, word)

brand_map ==
    {<<<<"z", "a", "r", "a">>, <<"Z", "a", "r", "a">>>>,
     <<<<"z", "a", "r", "a", " ", "t", "r", "a", "f", "a", "l", "u", "c">>, <<"Z", "a", "r", "a">>>>,
     <<<<"z", "a", "r", "a", " ", "b", "a", "s", "i", "c">>, <<"Z", "a", "r", "a">>>>,
     <<<<"z", "a", "r", "a", " ", "t", "r", "f">>, <<"Z", "a", "r", "a">>>>,
     <<<<"h", "&", "m">>, <<"H", "&", "M">>>>,
     <<<<"h", "m">>, <<"H", "&", "M">>>>,
     <<<<"h", " ", "&", " ", "m">>, <<"H", "&", "M">>>>,
     <<<<"h", "&", "m", " ", "d", "i", "v", "i", "d", "e", "d">>, <<"H", "&", "M">>>>,
     <<<<"m", "a", "n", "g", "o">>, <<"M", "a", "n", "g", "o">>>>,
     <<<<"m", "a", "n", "g", "o", " ", "s", "u", "i", "t">>, <<"M", "a", "n", "g", "o">>>>,
     <<<<"n", "i", "k", "e">>, <<"N", "i", "k", "e">>>>,
     <<<<"n", "i", "k", "e", " ", "s", "p", "o", "r", "t", "s", "w", "e", "a", "r">>, <<"N", "i", "k", "e">>>>,
     <<<<"l", "e", "v", "i", "'", "s">>, <<"L", "e", "v", "i", "'", "s">>>>,
     <<<<"l", "e", "v", "i", "s">>, <<"L", "e", "v", "i", "'", "s">>>>,
     <<<<"l", "e", "v", "i", " ", "s", "t", "r", "a", "u", "s", "s">>, <<"L", "e", "v", "i", "'", "s">>>>}

\* brand_map.get(key, default)
brand_map_get(key, default) ==
    IF \E kv \in brand_map : kv[1] = key
    THEN (CHOOSE kv \in brand_map : kv[1] = key)[2]
    ELSE default

normalize_brand(brand_raw) ==
    IF isna(brand_raw) THEN brand_raw
    ELSE brand_map_get(strip(lower(brand_raw)), strip(brand_raw))

DressWords == {<<"v", "e", "s", "t", "i", "d", "o">>,
              <<"d", "r", "e", "s", "s">>,
              <<"v", "e", "s", "t", "i", "d", "o", "s">>}
SneakerWords == {<<"z", "a", "p", "a", "t", "i", "l", "l", "a">>,
                <<"s", "n", "e", "a", "k", "e", "r">>,
                <<"d", "e", "p", "o", "r", "t", "i", "v", "a">>,
                <<"t", "r", "a", "i", "n", "e", "r">>}
TshirtWords == {<<"c", "a", "m", "i", "s", "e", "t", "a">>,
               <<"t", "-", "s", "h", "i", "r", "t">>,
               <<"t", "s", "h", "i", "r", "t">>,
               <<"t", "e", "e">>,
               <<"t", "o", "p">>}
JeansWords == {<<"v", "a", "q", "u", "e", "r", "o">>,
              <<"j", "e", "a", "n">>,
              <<"d", "e", "n", "i", "m">>,
              <<"p", "a", "n", "t", "a", "l", "o-acute", "n">>}

normalize_category(category_raw, title) ==
    LET text == lower(str(category_raw) \o <<" ">> \o str(title))
    IN  IF any_in(text, DressWords) THEN <<"D", "r", "e", "s", "s">>
        ELSE IF any_in(text, SneakerWords) THEN <<"S", "n", "e", "a", "k", "e", "r", "s">>
        ELSE IF any_in(text, TshirtWords) THEN <<"T", "-", "s", "h", "i", "r", "t">>
        ELSE IF any_in(text, JeansWords) THEN <<"J", "e", "a", "n", "s">>
        ELSE category_raw

NewWords == {<<"n", "u", "e", "v", "o">>,
            <<"n", "e", "w">>,
            <<"e", "t", "i", "q", "u", "e", "t", "a">>,
            <<"t", "a", "g">>,
            <<"s", "i", "n", " ", "e", "s", "t", "r", "e", "n", "a", "r">>,
            <<"n", "u", "n", "c", "a", " ", "u", "s", "a", "d", "o">>,
            <<"n", "e", "v", "e", "r", " ", "w", "o", "r", "n">>,
            <<"c", "o", "n", " ", "e", "t", "i", "q", "u", "e", "t", "a">>}
GoodWords == {<<"m", "u", "y", " ", "b", "u", "e", "n", "o">>,
             <<"v", "e", "r", "y", " ", "g", "o", "o", "d">>,
             <<"b", "u", "e", "n", "o">>,
             <<"g", "o", "o", "d">>,
             <<"e", "x", "c", "e", "l", "e", "n", "t", "e">>,
             <<"e", "x", "c", "e", "l", "l", "e", "n", "t">>,
             <<"p", "e", "r", "f", "e", "c", "t", "o">>,
             <<"p", "e", "r", "f", "e", "c", "t">>}

\* the third keyword list and the default both give 'Average/Poor'
normalize_condition(condition_raw) ==
    IF isna(condition_raw) THEN <<"U", "n", "k", "n", "o", "w", "n">>
    ELSE LET condition_lower == lower(str(condition_raw))
         IN  IF any_in(condition_lower, NewWords) THEN <<"N", "e", "w", "/", "L", "i", "k", "e", " ", "n", "e", "w">>
             ELSE IF any_in(condition_lower, GoodWords) THEN <<"V", "e", "r", "y", " ", "g", "o", "o", "d", "/", "G", "o", "o", "d">>
             ELSE <<"A", "v", "e", "r", "a", "g", "e", "/", "P", "o", "o", "r">>

\* raw values of the brand, category, title and condition columns of a scrape
BrandInputs == {<<" ", "Z", "A", "R", "A", " ">>,
                <<"H", " ", "&", " ", "M">>,
                <<"L", "e", "v", "i", "s">>,
                <<"B", "e", "r", "s", "h", "k", "a">>} \cup {Missing}
CategoryInputs == {<<"V", "e", "s", "t", "i", "d", "o", "s">>,
                   <<"T", "o", "p", "s">>,
                   <<"P", "a", "n", "t", "a", "l", "o-acute", "n">>,
                   <<"A", "b", "r", "i", "g", "o", "s">>} \cup {Missing}
TitleInputs == {<<"T", "o", "p", " ", "N", "i", "k", "e">>,
                <<"F", "a", "l", "d", "a">>,
                <<"D", "e", "n", "i", "m", " ", "d", "r", "e", "s", "s">>} \cup {Missing}
ConditionInputs == {<<"N", "u", "e", "v", "o", " ", "c", "o", "n", " ", "e", "t", "i", "q", "u", "e", "t", "a">>,
                    <<"M", "u", "y", " ", "b", "u", "e", "n", "o">>,
                    <<"S", "a", "t", "i", "s", "f", "a", "c", "t", "o", "r", "i", "o">>,
                    <<"G", "o", "o", "d">>} \cup {Missing}

InitNormalize ==
    /\ now = 0
    /\ scrape = [exists |-> FALSE, rows |-> <<>>, processed |-> FALSE]
    /\ listings = <<>>
    /\ priceLog = <<>>
    /\ soldLog = <<>>
    /\ runs = 0
    /\ published = [i \in Items |-> NaT]
    /\ rerun = RerunIdle
    /\ kpi = KpiIdle
    /\ save = SaveIdle
    /\ pipe = PipeIdle
    /\ pager = PagerIdle
    /\ \E b \in BrandInputs, c \in CategoryInputs, t \in TitleInputs, k \in ConditionInputs :
          norm = [NormIdle EXCEPT
                    !.phase = "raw",
                    !.raw = [brand_raw |-> b, category_raw |-> c, title |-> t,
                             condition_raw |-> k]]

\* the three normalisers on the raw columns, as process_new_scrape applies them
Normalize ==
    /\ norm.phase = "raw"
    /\ norm' = [norm EXCEPT
                  !.phase = "once",
                  !.once = [brand_norm |-> normalize_brand(norm.raw.brand_raw),
                            category_norm |-> normalize_category(norm.raw.category_raw,
                                                                 norm.raw.title),
                            condition_bucket |-> normalize_condition(norm.raw.condition_raw)]]
    /\ UNCHANGED <<now, scrape, listings, priceLog, soldLog, runs, published, rerun, kpi, save, pipe, pager>>

\* the three normalisers on their own outputs, the title being the same
NormalizeAgain ==
    /\ norm.phase = "once"
    /\ norm' = [norm EXCEPT
                  !.phase = "twice",
                  !.twice = [brand_norm |-> normalize_brand(norm.once.brand_norm),
                             category_norm |-> normalize_category(norm.once.category_norm,
                                                                  norm.raw.title),
                             condition_bucket |-> normalize_condition(norm.once.condition_bucket)]]
    /\ UNCHANGED <<now, scrape, listings, priceLog, soldLog, runs, published, rerun, kpi, save, pipe, pager>>

NextNormalize == Normalize \/ NormalizeAgain

SpecNormalize == InitNormalize /\ [][NextNormalize]_vars

\* C25: normalize_brand, normalize_category (with the same title) and
\* normalize_condition are idempotent: applied to its own output each returns
\* that output unchanged, for every input, a missing value included.
C25_NormalisersIdempotent ==
    norm.phase = "twice" => norm.twice = norm.once

====
